---- MODULE Spec2Model ----
(***************************************************************************)
(* Model of mini_compiler.py: Lexer, recursive-descent Parser, tree        *)
(* walking Interpreter and the run() driver.                               *)
(*                                                                         *)
(* Source text is a sequence of one-character strings.  Python's 0-based   *)
(* cursor p is the 1-based index p+1 here.  Numbers are exact rationals    *)
(* n/d (d > 0, lowest terms) tagged int or float; within the inputs        *)
(* explored every float result is a small rational.                       *)
(***************************************************************************)
EXTENDS Integers, Sequences, FiniteSets, TLC

VARIABLES source, pos, line, tokens, lexstat, ast, env, output, ctl, status, nrun

vars == <<source, pos, line, tokens, lexstat, ast, env, output, ctl, status, nrun>>

lexvars == <<source, pos, line, tokens, lexstat>>
evalvars == <<env, output, ctl, status, nrun>>

(***************************************************************************)
(* Bounds of the explored inputs                                           *)
(***************************************************************************)
MaxSrcLen == 4
MaxToks == 3
MaxFrags == 3
MaxRuns == 2
MaxStmts == 2
MaxFailRuns == 2
MaxLoopRuns == 1
MaxExprRuns == 1

(***************************************************************************)
(* Generic helpers                                                         *)
(***************************************************************************)
None == "None"

Last(s) == s[Len(s)]

Abs(n) == IF n < 0 THEN 0 - n ELSE n

RECURSIVE GCD(_, _)
GCD(a, b) == IF b = 0 THEN a ELSE GCD(b, a % b)

RECURSIVE Flatten(_)
Flatten(ss) == IF ss = <<>> THEN <<>> ELSE Head(ss) \o Flatten(Tail(ss))

SeqsUpTo(S, n) == UNION {[1..k -> S] : k \in 0..n}

(***************************************************************************)
(* TOKENS and LEXER                                                        *)
(***************************************************************************)
Token(type, value, ln) == [type |-> type, value |-> value, line |-> ln]

KEYWORDS == {<<"p","r","i","n","t">>, <<"i","f">>, <<"e","l","s","e">>,
             <<"w","h","i","l","e">>}

\* val.upper() for the four reserved words
Upper(w) ==
    CASE w = <<"p","r","i","n","t">> -> "PRINT"
      [] w = <<"i","f">> -> "IF"
      [] w = <<"e","l","s","e">> -> "ELSE"
      [] w = <<"w","h","i","l","e">> -> "WHILE"

Lit(chars, ttype) == [kind |-> "lit", lit |-> chars, ttype |-> ttype]

TOKEN_PATTERNS_eq_after_assign ==
    << [kind |-> "number", lit |-> <<>>, ttype |-> "NUMBER"],
       [kind |-> "ident",  lit |-> <<>>, ttype |-> "IDENT"],
       Lit(<<"<">>, "LT"), Lit(<<">">>, "GT"), Lit(<<"=">>, "ASSIGN"),
       Lit(<<"=","=">>, "EQ"), Lit(<<"!","=">>, "NEQ"),
       Lit(<<"<","=">>, "LTE"), Lit(<<">","=">>, "GTE"),
       Lit(<<"+">>, "PLUS"), Lit(<<"-">>, "MINUS"),
       Lit(<<"*">>, "MUL"), Lit(<<"*","*">>, "POW"),
       Lit(<<"/">>, "DIV"), Lit(<<"%">>, "MOD"),
       Lit(<<"(">>, "LPAREN"), Lit(<<")">>, "RPAREN"),
       Lit(<<"{">>, "LBRACE"), Lit(<<"}">>, "RBRACE"),
       Lit(<<";">>, "SEMICOL") >>

TOKEN_PATTERNS ==
    << [kind |-> "number", lit |-> <<>>, ttype |-> "NUMBER"],
       [kind |-> "ident",  lit |-> <<>>, ttype |-> "IDENT"],
       Lit(<<"=","=">>, "EQ"), Lit(<<"!","=">>, "NEQ"),
       Lit(<<"<","=">>, "LTE"), Lit(<<">","=">>, "GTE"),
       Lit(<<"<">>, "LT"), Lit(<<">">>, "GT"), Lit(<<"=">>, "ASSIGN"),
       Lit(<<"+">>, "PLUS"), Lit(<<"-">>, "MINUS"),
       Lit(<<"*","*">>, "POW"), Lit(<<"*">>, "MUL"),
       Lit(<<"/">>, "DIV"), Lit(<<"%">>, "MOD"),
       Lit(<<"(">>, "LPAREN"), Lit(<<")">>, "RPAREN"),
       Lit(<<"{">>, "LBRACE"), Lit(<<"}">>, "RBRACE"),
       Lit(<<";">>, "SEMICOL") >>

Digits == {"0","1","2","3","4","5","6","7","8","9"}
Letters == {"a","b","c","d","e","f","g","h","i","j","k","l","m","n","o","p",
            "q","r","s","t","u","v","w","x","y","z",
            "A","B","C","D","E","F","G","H","I","J","K","L","M","N","O","P",
            "Q","R","S","T","U","V","W","X","Y","Z"}

\* \d
IsDigit(c) == c \in Digits
\* [a-zA-Z_]
IsIdentStart(c) == c \in Letters \cup {"_"}
\* \w
IsWord(c) == c \in Letters \cup Digits \cup {"_"}
\* str.isspace()
IsSpace(c) == c \in {" ", "\t", "\n", "\r", "\f"}

DigitVal(c) ==
    CASE c = "0" -> 0 [] c = "1" -> 1 [] c = "2" -> 2 [] c = "3" -> 3
      [] c = "4" -> 4 [] c = "5" -> 5 [] c = "6" -> 6 [] c = "7" -> 7
      [] c = "8" -> 8 [] c = "9" -> 9

\* length of the longest run of characters satisfying a class, from index p
RECURSIVE DigitRun(_, _)
DigitRun(s, p) ==
    IF p <= Len(s) /\ IsDigit(s[p]) THEN 1 + DigitRun(s, p + 1) ELSE 0

RECURSIVE WordRun(_, _)
WordRun(s, p) ==
    IF p <= Len(s) /\ IsWord(s[p]) THEN 1 + WordRun(s, p + 1) ELSE 0

\* s[p:p+Len(lit)] == lit
StartsWith(s, p, lit) ==
    /\ p + Len(lit) - 1 <= Len(s)
    /\ \A i \in 1..Len(lit) : s[p + i - 1] = lit[i]

\* re.match(pattern, source[pos:]): length of the match, 0 when no match
MatchLen(pat, s, p) ==
    CASE pat.kind = "number" ->
            LET k == DigitRun(s, p)
                f == IF k > 0 /\ p + k <= Len(s) /\ s[p + k] = "."
                     THEN DigitRun(s, p + k + 1) ELSE 0
            IN  IF k = 0 THEN 0 ELSE IF f > 0 THEN k + 1 + f ELSE k
      [] pat.kind = "ident" ->
            IF p <= Len(s) /\ IsIdentStart(s[p]) THEN 1 + WordRun(s, p + 1) ELSE 0
      [] pat.kind = "lit" ->
            IF StartsWith(s, p, pat.lit) THEN Len(pat.lit) ELSE 0

\* index of the first pattern of TOKEN_PATTERNS that matches, 0 when none does
RECURSIVE FirstMatch(_, _, _)
FirstMatch(s, p, i) ==
    IF i > Len(TOKEN_PATTERNS) THEN 0
    ELSE IF MatchLen(TOKEN_PATTERNS[i], s, p) > 0 THEN i
    ELSE FirstMatch(s, p, i + 1)

(***************************************************************************)
(* Numeric values                                                          *)
(***************************************************************************)
Rat(isFloat, n, d) ==
    LET g == GCD(Abs(n), Abs(d))
        sgn == IF d < 0 THEN 0 - 1 ELSE 1
    IN  [f |-> isFloat, n |-> (sgn * n) \div g, d |-> (sgn * d) \div g]

IntV(n) == [f |-> FALSE, n |-> n, d |-> 1]

RECURSIVE Pow10(_)
Pow10(k) == IF k = 0 THEN 1 ELSE 10 * Pow10(k - 1)

\* int(val) for a run of decimal digits s[p .. p+k-1]
RECURSIVE DigitsToInt(_, _, _)
DigitsToInt(s, p, k) ==
    IF k = 0 THEN 0 ELSE 10 * DigitsToInt(s, p, k - 1) + DigitVal(s[p + k - 1])

\* float(val) if '.' in val else int(val)
NumberValue(s, p, len) ==
    LET k == DigitRun(s, p)
    IN  IF len = k THEN IntV(DigitsToInt(s, p, k))
        ELSE LET fl == len - k - 1
             IN  Rat(TRUE,
                     DigitsToInt(s, p, k) * Pow10(fl) + DigitsToInt(s, p + k + 1, fl),
                     Pow10(fl))

(***************************************************************************)
(* Lexer.tokenize, one iteration of the outer loop per step.               *)
(* A lexer state is [source, pos, line, tokens, stat].                     *)
(***************************************************************************)
LexInit(s) == [source |-> s, pos |-> 1, line |-> 1, tokens |-> <<>>,
               stat |-> "scanning"]

\* lines 94-98
SkipWhitespace(st) ==
    [st EXCEPT !.line = IF st.source[st.pos] = "\n" THEN st.line + 1 ELSE st.line,
               !.pos = st.pos + 1]

\* lines 100-103
RECURSIVE CommentEnd(_, _)
CommentEnd(s, p) ==
    IF p <= Len(s) /\ s[p] # "\n" THEN CommentEnd(s, p + 1) ELSE p

SkipComment(st) == [st EXCEPT !.pos = CommentEnd(st.source, st.pos)]

\* lines 105-119
MatchToken(st) ==
    LET i == FirstMatch(st.source, st.pos, 1)
    IN  IF i = 0 THEN [st EXCEPT !.stat = "error"]
        ELSE LET pat == TOKEN_PATTERNS[i]
                 len == MatchLen(pat, st.source, st.pos)
                 text == SubSeq(st.source, st.pos, st.pos + len - 1)
                 ttype == IF pat.ttype = "IDENT" /\ text \in KEYWORDS
                          THEN Upper(text) ELSE pat.ttype
                 val == IF pat.ttype = "NUMBER"
                        THEN NumberValue(st.source, st.pos, len) ELSE text
             IN  [st EXCEPT !.tokens = Append(st.tokens, Token(ttype, val, st.line)),
                            !.pos = st.pos + len]

AppendEOF_last_token_line(st) ==
    [st EXCEPT !.tokens = Append(st.tokens,
                   Token("EOF", None,
                         IF st.tokens = <<>> THEN 1 ELSE Last(st.tokens).line)),
               !.stat = "done"]

\* lines 121-122
AppendEOF(st) ==
    [st EXCEPT !.tokens = Append(st.tokens, Token("EOF", None, st.line)),
               !.stat = "done"]

AtSpace(st) == st.pos <= Len(st.source) /\ IsSpace(st.source[st.pos])
AtComment(st) == st.pos <= Len(st.source) /\ ~AtSpace(st)
                 /\ StartsWith(st.source, st.pos, <<"/","/">>)
AtToken(st) == st.pos <= Len(st.source) /\ ~AtSpace(st) /\ ~AtComment(st)

LexStep(st) ==
    IF st.pos > Len(st.source) THEN AppendEOF(st)
    ELSE IF AtSpace(st) THEN SkipWhitespace(st)
    ELSE IF AtComment(st) THEN SkipComment(st)
    ELSE MatchToken(st)

RECURSIVE LexRun(_)
LexRun(st) == IF st.stat = "scanning" THEN LexRun(LexStep(st)) ELSE st

\* Lexer(source).tokenize(): the final lexer state (stat "done" or "error")
tokenize(s) == LexRun(LexInit(s))

(***************************************************************************)
(* State of the lexer as variables, and its steps as actions               *)
(***************************************************************************)
LexState == [source |-> source, pos |-> pos, line |-> line, tokens |-> tokens,
             stat |-> lexstat]

SetLex(st) ==
    /\ source' = st.source
    /\ pos' = st.pos
    /\ line' = st.line
    /\ tokens' = st.tokens
    /\ lexstat' = st.stat

SetLexNow(st) ==
    /\ pos = st.pos
    /\ line = st.line
    /\ tokens = st.tokens
    /\ lexstat = st.stat

NoAst == [ok |-> FALSE, node |-> None, pos |-> 0, err |-> "NotParsed"]
EmptyEnv == [x \in {} |-> 0]

IdleRest ==
    /\ ast = NoAst
    /\ env = EmptyEnv
    /\ output = <<>>
    /\ ctl = <<>>
    /\ status = "idle"
    /\ nrun = 0

LexAlphabet == {"a", "1", "=", "!", "<", ">", "*", "/", " ", "\n"}

SrcAEqB == <<"a","=","=","b">>

LexExamples == {SrcAEqB, <<"i","f"," ","x","1","_",">","=","2",".","5","0">>,
                <<"1",".","+","0","7","/","/","=","=","\n","*","*">>}

InitLex ==
    /\ source \in SeqsUpTo(LexAlphabet, MaxSrcLen) \cup LexExamples
    /\ pos = 1
    /\ line = 1
    /\ tokens = <<>>
    /\ lexstat = "scanning"
    /\ IdleRest

LexWhitespace ==
    /\ lexstat = "scanning"
    /\ AtSpace(LexState)
    /\ SetLex(SkipWhitespace(LexState))
    /\ UNCHANGED <<ast, evalvars>>

LexComment ==
    /\ lexstat = "scanning"
    /\ AtComment(LexState)
    /\ SetLex(SkipComment(LexState))
    /\ UNCHANGED <<ast, evalvars>>

LexToken ==
    /\ lexstat = "scanning"
    /\ AtToken(LexState)
    /\ FirstMatch(source, pos, 1) # 0
    /\ SetLex(MatchToken(LexState))
    /\ UNCHANGED <<ast, evalvars>>

LexError ==
    /\ lexstat = "scanning"
    /\ AtToken(LexState)
    /\ FirstMatch(source, pos, 1) = 0
    /\ SetLex(MatchToken(LexState))
    /\ UNCHANGED <<ast, evalvars>>

LexEOF ==
    /\ lexstat = "scanning"
    /\ pos > Len(source)
    /\ SetLex(AppendEOF(LexState))
    /\ UNCHANGED <<ast, evalvars>>

NextLex == LexWhitespace \/ LexComment \/ LexToken \/ LexError \/ LexEOF

SpecLex == InitLex /\ [][NextLex]_vars

(***************************************************************************)
(* AST NODES                                                               *)
(***************************************************************************)
NumberNode(value) == [kind |-> "Number", value |-> value]
VarNode(name) == [kind |-> "Var", name |-> name]
BinOpNode(left, op, right) == [kind |-> "BinOp", left |-> left, op |-> op, right |-> right]
UnaryNode(op, operand) == [kind |-> "Unary", op |-> op, operand |-> operand]
AssignNode(name, value) == [kind |-> "Assign", name |-> name, value |-> value]
PrintNode(expr) == [kind |-> "Print", expr |-> expr]
\* else_body is [present |-> FALSE] for None, [present |-> TRUE, stmts |-> list]
IfNode(condition, then_body, else_body) ==
    [kind |-> "If", condition |-> condition, then_body |-> then_body,
     else_body |-> else_body]
WhileNode(condition, body) == [kind |-> "While", condition |-> condition, body |-> body]
BlockNode(statements) == [kind |-> "Block", statements |-> statements]

NoElse == [present |-> FALSE, stmts |-> <<>>]
SomeElse(stmts) == [present |-> TRUE, stmts |-> stmts]

(***************************************************************************)
(* PARSER.  Every procedure takes the token list and the cursor and        *)
(* returns Ok(node, cursor) or Fail(error, cursor); an exception           *)
(* propagates through every caller.  A read of tokens[p] outside the list  *)
(* is Python's IndexError.                                                 *)
(***************************************************************************)
Ok(node, p) == [ok |-> TRUE, node |-> node, pos |-> p, err |-> None]
Fail(err, p) == [ok |-> FALSE, node |-> None, pos |-> p, err |-> err]

OutOfRange == "<IndexError>"

\* self.tokens[p].type
TypeAt(toks, p) == IF p \in 1..Len(toks) THEN toks[p].type ELSE OutOfRange

eat_unchecked(toks, p, ttype) ==
    IF TypeAt(toks, p) = OutOfRange THEN Fail("IndexError", p)
    ELSE Ok(toks[p], p + 1)

eat(toks, p, ttype) ==
    IF TypeAt(toks, p) = OutOfRange THEN Fail("IndexError", p)
    ELSE IF TypeAt(toks, p) # ttype THEN Fail("SyntaxError", p)
    ELSE Ok(toks[p], p + 1)

optional_semicolon(toks, p) ==
    IF TypeAt(toks, p) = OutOfRange THEN Fail("IndexError", p)
    ELSE IF TypeAt(toks, p) = "SEMICOL" THEN Ok(None, p + 1)
    ELSE Ok(None, p)

CompareOps == {"EQ", "NEQ", "LT", "GT", "LTE", "GTE"}

\* the ops dictionary of Parser.comparison
CompareLexeme(ttype) ==
    CASE ttype = "EQ" -> <<"=","=">>
      [] ttype = "NEQ" -> <<"!","=">>
      [] ttype = "LT" -> <<"<">>
      [] ttype = "GT" -> <<">">>
      [] ttype = "LTE" -> <<"<","=">>
      [] ttype = "GTE" -> <<">","=">>

\* an exception raised by a callee propagates through the caller; otherwise
\* the caller goes on with the callee's result
Then(r, rest(_)) == IF ~r.ok THEN r ELSE rest(r)

RECURSIVE statement(_, _), BodyLoop(_, _, _), if_stmt(_, _), while_stmt(_, _)
RECURSIVE expression(_, _), comparison(_, _), CompareLoop(_, _, _)
RECURSIVE additive(_, _), AdditiveLoop(_, _, _)
RECURSIVE multiplicative(_, _), MultiplicativeLoop(_, _, _)
RECURSIVE power(_, _), unary(_, _), primary(_, _)

primary(toks, p) ==
    IF TypeAt(toks, p) = OutOfRange THEN Fail("IndexError", p)
    ELSE IF TypeAt(toks, p) = "NUMBER" THEN Ok(NumberNode(toks[p].value), p + 1)
    ELSE IF TypeAt(toks, p) = "IDENT" THEN Ok(VarNode(toks[p].value), p + 1)
    ELSE IF TypeAt(toks, p) = "LPAREN" THEN
        Then(expression(toks, p + 1), LAMBDA e :
        Then(eat(toks, e.pos, "RPAREN"), LAMBDA r :
        Ok(e.node, r.pos)))
    ELSE Fail("SyntaxError", p)

unary(toks, p) ==
    IF TypeAt(toks, p) = OutOfRange THEN Fail("IndexError", p)
    ELSE IF TypeAt(toks, p) = "MINUS" THEN
        Then(primary(toks, p + 1), LAMBDA r :
        Ok(UnaryNode(<<"-">>, r.node), r.pos))
    ELSE primary(toks, p)

power_left_assoc(toks, p) ==
    Then(unary(toks, p), LAMBDA base :
    IF TypeAt(toks, base.pos) = OutOfRange THEN Fail("IndexError", base.pos)
    ELSE IF TypeAt(toks, base.pos) = "POW" THEN
        Then(unary(toks, base.pos + 1), LAMBDA ex :
        IF TypeAt(toks, ex.pos) = "POW" THEN
            Then(power(toks, ex.pos + 1), LAMBDA ex2 :
            Ok(BinOpNode(BinOpNode(base.node, <<"*","*">>, ex.node),
                         <<"*","*">>, ex2.node), ex2.pos))
        ELSE Ok(BinOpNode(base.node, <<"*","*">>, ex.node), ex.pos))
    ELSE base)

power(toks, p) ==
    Then(unary(toks, p), LAMBDA base :
    IF TypeAt(toks, base.pos) = OutOfRange THEN Fail("IndexError", base.pos)
    ELSE IF TypeAt(toks, base.pos) = "POW" THEN
        Then(power(toks, base.pos + 1), LAMBDA ex :
        Ok(BinOpNode(base.node, <<"*","*">>, ex.node), ex.pos))
    ELSE base)

\* the while loop of Parser.multiplicative
MultiplicativeLoop(toks, p, left) ==
    IF TypeAt(toks, p) = OutOfRange THEN Fail("IndexError", p)
    ELSE IF TypeAt(toks, p) \in {"MUL", "DIV", "MOD"} THEN
        Then(power(toks, p + 1), LAMBDA right :
        MultiplicativeLoop(toks, right.pos,
                           BinOpNode(left, toks[p].value, right.node)))
    ELSE Ok(left, p)

multiplicative(toks, p) ==
    Then(power(toks, p), LAMBDA left :
    MultiplicativeLoop(toks, left.pos, left.node))

\* the while loop of Parser.additive
AdditiveLoop(toks, p, left) ==
    IF TypeAt(toks, p) = OutOfRange THEN Fail("IndexError", p)
    ELSE IF TypeAt(toks, p) \in {"PLUS", "MINUS"} THEN
        Then(multiplicative(toks, p + 1), LAMBDA right :
        AdditiveLoop(toks, right.pos,
                     BinOpNode(left, toks[p].value, right.node)))
    ELSE Ok(left, p)

additive(toks, p) ==
    Then(multiplicative(toks, p), LAMBDA left :
    AdditiveLoop(toks, left.pos, left.node))

\* the while loop of Parser.comparison
CompareLoop(toks, p, left) ==
    IF TypeAt(toks, p) = OutOfRange THEN Fail("IndexError", p)
    ELSE IF TypeAt(toks, p) \in CompareOps THEN
        Then(additive(toks, p + 1), LAMBDA right :
        CompareLoop(toks, right.pos,
                    BinOpNode(left, CompareLexeme(toks[p].type), right.node)))
    ELSE Ok(left, p)

comparison(toks, p) ==
    Then(additive(toks, p), LAMBDA left :
    CompareLoop(toks, left.pos, left.node))

expression(toks, p) == comparison(toks, p)

\* while self.current().type != RBRACE: body.append(self.statement())
BodyLoop(toks, p, stmts) ==
    IF TypeAt(toks, p) = OutOfRange THEN Fail("IndexError", p)
    ELSE IF TypeAt(toks, p) = "RBRACE" THEN Ok(stmts, p)
    ELSE Then(statement(toks, p), LAMBDA r :
         BodyLoop(toks, r.pos, Append(stmts, r.node)))

\* eat(kw) ( expression ) { statement* } : the shared head of if and while
BlockHead(toks, p, kw) ==
    Then(eat(toks, p, kw), LAMBDA k :
    Then(eat(toks, k.pos, "LPAREN"), LAMBDA lp :
    Then(expression(toks, lp.pos), LAMBDA cond :
    Then(eat(toks, cond.pos, "RPAREN"), LAMBDA rp :
    Then(eat(toks, rp.pos, "LBRACE"), LAMBDA lb :
    Then(BodyLoop(toks, lb.pos, <<>>), LAMBDA body :
    Then(eat(toks, body.pos, "RBRACE"), LAMBDA rb :
    Ok([cond |-> cond.node, body |-> body.node], rb.pos))))))))

if_stmt(toks, p) ==
    Then(BlockHead(toks, p, "IF"), LAMBDA h :
    IF TypeAt(toks, h.pos) = OutOfRange THEN Fail("IndexError", h.pos)
    ELSE IF TypeAt(toks, h.pos) = "ELSE" THEN
        Then(eat(toks, h.pos + 1, "LBRACE"), LAMBDA lb :
        Then(BodyLoop(toks, lb.pos, <<>>), LAMBDA body :
        Then(eat(toks, body.pos, "RBRACE"), LAMBDA rb :
        Ok(IfNode(h.node.cond, h.node.body, SomeElse(body.node)), rb.pos))))
    ELSE Ok(IfNode(h.node.cond, h.node.body, NoElse), h.pos))

while_stmt(toks, p) ==
    Then(BlockHead(toks, p, "WHILE"), LAMBDA h :
    Ok(WhileNode(h.node.cond, h.node.body), h.pos))

statement(toks, p) ==
    IF TypeAt(toks, p) = OutOfRange THEN Fail("IndexError", p)
    ELSE IF TypeAt(toks, p) = "PRINT" THEN
        Then(eat(toks, p + 1, "LPAREN"), LAMBDA lp :
        Then(expression(toks, lp.pos), LAMBDA e :
        Then(eat(toks, e.pos, "RPAREN"), LAMBDA rp :
        Then(optional_semicolon(toks, rp.pos), LAMBDA sc :
        Ok(PrintNode(e.node), sc.pos)))))
    ELSE IF TypeAt(toks, p) = "IF" THEN if_stmt(toks, p)
    ELSE IF TypeAt(toks, p) = "WHILE" THEN while_stmt(toks, p)
    ELSE IF TypeAt(toks, p) = "IDENT" /\ TypeAt(toks, p + 1) = OutOfRange
        THEN Fail("IndexError", p + 1)
    ELSE IF TypeAt(toks, p) = "IDENT" /\ TypeAt(toks, p + 1) = "ASSIGN" THEN
        Then(eat(toks, p, "IDENT"), LAMBDA name :
        Then(eat(toks, name.pos, "ASSIGN"), LAMBDA asg :
        Then(expression(toks, asg.pos), LAMBDA e :
        Then(optional_semicolon(toks, e.pos), LAMBDA sc :
        Ok(AssignNode(name.node.value, e.node), sc.pos)))))
    ELSE Then(expression(toks, p), LAMBDA e :
         Then(optional_semicolon(toks, e.pos), LAMBDA sc :
         Ok(e.node, sc.pos)))

\* while self.current().type != EOF: stmts.append(self.statement())
RECURSIVE ParseLoop(_, _, _)
ParseLoop_keep_partial(toks, p, stmts) ==
    IF TypeAt(toks, p) = OutOfRange THEN Fail("IndexError", p)
    ELSE IF TypeAt(toks, p) = "EOF" THEN Ok(BlockNode(stmts), p)
    ELSE IF ~statement(toks, p).ok THEN Ok(BlockNode(stmts), p)
    ELSE Then(statement(toks, p), LAMBDA r :
         ParseLoop(toks, r.pos, Append(stmts, r.node)))

ParseLoop(toks, p, stmts) ==
    IF TypeAt(toks, p) = OutOfRange THEN Fail("IndexError", p)
    ELSE IF TypeAt(toks, p) = "EOF" THEN Ok(BlockNode(stmts), p)
    ELSE Then(statement(toks, p), LAMBDA r :
         ParseLoop(toks, r.pos, Append(stmts, r.node)))

\* Parser(tokens).parse()
parse(toks) == ParseLoop(toks, 1, <<>>)

(***************************************************************************)
(* EVALUATOR: expressions.  Results are Val(v) or Exc(error).              *)
(***************************************************************************)
LoopLimit == 10000

Val(v) == [ok |-> TRUE, val |-> v, err |-> None]
Exc(err) == [ok |-> FALSE, val |-> None, err |-> err]

RECURSIVE IntPow(_, _)
IntPow(b, k) == IF k = 0 THEN 1 ELSE b * IntPow(b, k - 1)

\* floor of the rational n/d, d > 0
Floor(n, d) == IF n >= 0 THEN n \div d ELSE 0 - ((0 - n + d - 1) \div d)

Bool(b) == IntV(IF b THEN 1 ELSE 0)

Divide_zero_yields_zero(a, b) ==
    IF b.n # 0 THEN Val(Rat(TRUE, a.n * b.d, a.d * b.n))
    ELSE Val(IntV(0))

\* a / b if b != 0 else throw ZeroDivisionError
Divide(a, b) ==
    IF b.n # 0 THEN Val(Rat(TRUE, a.n * b.d, a.d * b.n))
    ELSE Exc("ZeroDivisionError")

\* a % b: Python's floored modulo, ZeroDivisionError on a zero divisor
Modulo(a, b) ==
    IF b.n = 0 THEN Exc("ZeroDivisionError")
    ELSE LET q == Rat(TRUE, a.n * b.d, a.d * b.n)
             fl == Floor(q.n, q.d)
         IN  Val(Rat(a.f \/ b.f, a.n * b.d - fl * b.n * a.d, a.d * b.d))

\* a ** b for an integral exponent; other exponents are outside the model
Power(a, b) ==
    IF b.d # 1 THEN Exc("Unmodelled")
    ELSE IF b.n >= 0
        THEN Val(Rat(a.f \/ b.f, IntPow(a.n, b.n), IntPow(a.d, b.n)))
    ELSE IF a.n = 0 THEN Exc("ZeroDivisionError")
    ELSE Val(Rat(TRUE, IntPow(a.d, 0 - b.n), IntPow(a.n, 0 - b.n)))

\* the ops table of the BinOpNode branch
ApplyOp(op, a, b) ==
    CASE op = <<"+">> -> Val(Rat(a.f \/ b.f, a.n * b.d + b.n * a.d, a.d * b.d))
      [] op = <<"-">> -> Val(Rat(a.f \/ b.f, a.n * b.d - b.n * a.d, a.d * b.d))
      [] op = <<"*">> -> Val(Rat(a.f \/ b.f, a.n * b.n, a.d * b.d))
      [] op = <<"/">> -> Divide(a, b)
      [] op = <<"%">> -> Modulo(a, b)
      [] op = <<"*","*">> -> Power(a, b)
      [] op = <<"=","=">> -> Val(Bool(a.n * b.d = b.n * a.d))
      [] op = <<"!","=">> -> Val(Bool(a.n * b.d # b.n * a.d))
      [] op = <<"<">> -> Val(Bool(a.n * b.d < b.n * a.d))
      [] op = <<">">> -> Val(Bool(a.n * b.d > b.n * a.d))
      [] op = <<"<","=">> -> Val(Bool(a.n * b.d <= b.n * a.d))
      [] op = <<">","=">> -> Val(Bool(a.n * b.d >= b.n * a.d))

\* Interpreter.eval on NumberNode, VarNode, BinOpNode and UnaryNode
RECURSIVE EvalExpr(_, _)
EvalExpr(node, e) ==
    CASE node.kind = "Number" -> Val(node.value)
      [] node.kind = "Var" ->
            IF node.name \in DOMAIN e THEN Val(e[node.name]) ELSE Exc("NameError")
      [] node.kind = "BinOp" ->
            LET l == EvalExpr(node.left, e)
            IN  IF ~l.ok THEN l ELSE
                LET r == EvalExpr(node.right, e)
                IN  IF ~r.ok THEN r ELSE ApplyOp(node.op, l.val, r.val)
      [] node.kind = "Unary" ->
            LET v == EvalExpr(node.operand, e)
            IN  IF ~v.ok THEN v
                ELSE IF node.op = <<"-">>
                    THEN Val([f |-> v.val.f, n |-> 0 - v.val.n, d |-> v.val.d])
                ELSE v

\* the truth value Python gives a number
Truthy(v) == v.n # 0

\* int(val) if isinstance(val, float) and val.is_integer() else val
Display(v) == IF v.f /\ v.d = 1 THEN IntV(v.n) ELSE v

(***************************************************************************)
(* EVALUATOR: statements.  The Python call stack of eval is the control    *)
(* stack ctl: a "seq" frame is a for loop over a statement list at index   *)
(* i, a "while" frame is a WhileNode with its iterations counter.  One     *)
(* step evaluates one statement or one loop condition.  An outcome is      *)
(* [env, output, ctl, status].                                             *)
(***************************************************************************)
SeqFrame(stmts) ==
    [k |-> "seq", stmts |-> stmts, i |-> 1, node |-> None, iterations |-> 0]
WhileFrame(node) ==
    [k |-> "while", stmts |-> <<>>, i |-> 0, node |-> node, iterations |-> 0]

Top(stack) == stack[Len(stack)]
Pop(stack) == SubSeq(stack, 1, Len(stack) - 1)
Advance(stack) == [stack EXCEPT ![Len(stack)].i = @ + 1]
CurStmt(stack) == Top(stack).stmts[Top(stack).i]

\* leave every statement list that is exhausted
RECURSIVE Normalize(_)
Normalize(stack) ==
    IF stack = <<>> THEN <<>>
    ELSE IF Top(stack).k = "seq" /\ Top(stack).i > Len(Top(stack).stmts)
        THEN Normalize(Pop(stack))
    ELSE stack

Continue(stack, e, out) ==
    LET n == Normalize(stack)
    IN  [env |-> e, output |-> out, ctl |-> n,
         status |-> IF n = <<>> THEN "done" ELSE "running"]

Raise_rollback(stack, e, out, err) ==
    [env |-> EmptyEnv, output |-> <<>>, ctl |-> <<>>, status |-> err]

\* the exception unwinds eval and is caught in run (lines 414-415)
Raise(stack, e, out, err) ==
    [env |-> e, output |-> out, ctl |-> <<>>, status |-> err]

\* self.env[node.name] = val
SetVar(e, name, val) ==
    [x \in DOMAIN e \cup {name} |-> IF x = name THEN val ELSE e[x]]

ExecAssign_block_local(stack, e, out) ==
    LET stmt == CurStmt(stack)
        v == EvalExpr(stmt.value, e)
    IN  IF ~v.ok THEN Raise(stack, e, out, v.err)
        ELSE Continue(Advance(stack),
                      IF Len(stack) > 1 THEN e ELSE SetVar(e, stmt.name, v.val), out)

ExecAssign(stack, e, out) ==
    LET stmt == CurStmt(stack)
        v == EvalExpr(stmt.value, e)
    IN  IF ~v.ok THEN Raise(stack, e, out, v.err)
        ELSE Continue(Advance(stack), SetVar(e, stmt.name, v.val), out)

ExecPrint(stack, e, out) ==
    LET v == EvalExpr(CurStmt(stack).expr, e)
    IN  IF ~v.ok THEN Raise(stack, e, out, v.err)
        ELSE Continue(Advance(stack), e, Append(out, Display(v.val)))

ExecExpr(stack, e, out) ==
    LET v == EvalExpr(CurStmt(stack), e)
    IN  IF ~v.ok THEN Raise(stack, e, out, v.err)
        ELSE Continue(Advance(stack), e, out)

ExecIf(stack, e, out) ==
    LET stmt == CurStmt(stack)
        c == EvalExpr(stmt.condition, e)
    IN  IF ~c.ok THEN Raise(stack, e, out, c.err)
        ELSE IF Truthy(c.val)
            THEN Continue(Append(Advance(stack), SeqFrame(stmt.then_body)), e, out)
        ELSE IF stmt.else_body.present /\ stmt.else_body.stmts # <<>>
            THEN Continue(Append(Advance(stack), SeqFrame(stmt.else_body.stmts)), e, out)
        ELSE Continue(Advance(stack), e, out)

WhileCond_check_before_increment(stack, e, out) ==
    LET fr == Top(stack)
        c == EvalExpr(fr.node.condition, e)
    IN  IF ~c.ok THEN Raise(stack, e, out, c.err)
        ELSE IF Truthy(c.val) THEN
            IF fr.iterations > LoopLimit
                THEN Raise(stack, e, out, "RuntimeError")
            ELSE Continue(Append([stack EXCEPT ![Len(stack)].iterations = @ + 1],
                                 SeqFrame(fr.node.body)), e, out)
        ELSE Continue(Pop(stack), e, out)

\* one pass of `while self.eval(node.condition)`: the test, the counter, the bound
WhileCond(stack, e, out) ==
    LET fr == Top(stack)
        c == EvalExpr(fr.node.condition, e)
    IN  IF ~c.ok THEN Raise(stack, e, out, c.err)
        ELSE IF Truthy(c.val) THEN
            IF fr.iterations + 1 > LoopLimit
                THEN Raise(stack, e, out, "RuntimeError")
            ELSE Continue(Append([stack EXCEPT ![Len(stack)].iterations = @ + 1],
                                 SeqFrame(fr.node.body)), e, out)
        ELSE Continue(Pop(stack), e, out)

\* entering a WhileNode: iterations = 0, then the first pass
ExecWhile(stack, e, out) ==
    WhileCond(Append(Advance(stack), WhileFrame(CurStmt(stack))), e, out)

(***************************************************************************)
(* A session: run() called on one source after another with the same      *)
(* Interpreter.  Sources are one or more pieces of text.                   *)
(***************************************************************************)
\* x = 10; y = x + 5; print(y)\n
PieceExample ==
    <<"x"," ","="," ","1","0",";"," ","y"," ","="," ","x"," ","+"," ","5",
      ";"," ","p","r","i","n","t","(","y",")","\n">>

\* print(5 / 0)\n
PieceDivZero ==
    <<"p","r","i","n","t","(","5"," ","/"," ","0",")","\n">>

\* if(x<y){z=x}else{w=y} 
PieceIfElse ==
    <<"i","f","(","x","<","y",")","{","z","=","x","}","e","l","s","e","{",
      "w","=","y","}"," ">>

\* while(z<12){z=z+1 v=z} 
PieceWhile ==
    <<"w","h","i","l","e","(","z","<","1","2",")","{","z","=","z","+","1",
      " ","v","=","z","}"," ">>

\* z=0 
PieceZero ==
    <<"z","=","0"," ">>

\* print(y/z) 
PieceDivVar ==
    <<"p","r","i","n","t","(","y","/","z",")"," ">>

\* if(x){z=1 
PieceUnclosed ==
    <<"i","f","(","x",")","{","z","=","1"," ">>

\* x+1 
PieceExprStmt ==
    <<"x","+","1"," ">>

\* )
PieceParen ==
    <<")">>

\* $
PieceBadChar ==
    <<"$">>

Pieces == {PieceExample, PieceDivZero, PieceIfElse, PieceWhile, PieceZero, PieceDivVar, PieceExprStmt,
     PieceUnclosed, PieceParen, PieceBadChar}

Sources == {Flatten(ps) : ps \in SeqsUpTo(Pieces, MaxStmts)}

(***************************************************************************)
(* Programs that fail while they are evaluated                             *)
(***************************************************************************)
\* x=1 print(x) if(x){y=2 print(y) z=q y=3} x=2
SrcNameError ==
    <<"x","=","1"," ","p","r","i","n","t","(","x",")"," ","i","f","(","x",
      ")","{","y","=","2"," ","p","r","i","n","t","(","y",")"," ","z","=",
      "q"," ","y","=","3","}"," ","x","=","2">>

\* x=3 print(x) print(x/0) x=2
SrcZeroDiv ==
    <<"x","=","3"," ","p","r","i","n","t","(","x",")"," ","p","r","i","n",
      "t","(","x","/","0",")"," ","x","=","2">>

\* i=0 print(i) while(1){i=i+1} i=0
SrcTrip ==
    <<"i","=","0"," ","p","r","i","n","t","(","i",")"," ","w","h","i","l",
      "e","(","1",")","{","i","=","i","+","1","}"," ","i","=","0">>

\* print(x)
SrcShow ==
    <<"p","r","i","n","t","(","x",")">>

FailSources == {SrcNameError, SrcZeroDiv, SrcTrip, SrcShow}

(***************************************************************************)
(* Loops against the iteration bound                                       *)
(***************************************************************************)
\* while (1) { }
SrcWhileTrue ==
    <<"w","h","i","l","e"," ","(","1",")"," ","{"," ","}">>

\* i=0 while(i<10000){i=i+1}
SrcCount10000 ==
    <<"i","=","0"," ","w","h","i","l","e","(","i","<","1","0","0","0","0",
      ")","{","i","=","i","+","1","}">>

\* i=0 while(i<10001){i=i+1}
SrcCount10001 ==
    <<"i","=","0"," ","w","h","i","l","e","(","i","<","1","0","0","0","1",
      ")","{","i","=","i","+","1","}">>

LoopSources == {SrcWhileTrue, SrcCount10000, SrcCount10001}



(***************************************************************************)
(* Expression programs: print(2 o1 3 o2 2) for every pair of binary         *)
(* operators, bare and with either pair parenthesised, and the three       *)
(* worked examples.  2 ** (3 / 2) is left out: its exponent is not         *)
(* integral.                                                               *)
(***************************************************************************)
BinOps == {<<"+">>, <<"-">>, <<"*">>, <<"/">>, <<"%">>, <<"*","*">>, <<"=","=">>, <<"!","=">>, <<"<">>, <<">">>, <<"<","=">>, <<">","=">>}

Forms == {"plain", "left", "right"}

PrintOpen == <<"p","r","i","n","t","(">>

ExprSrc(form, o1, o2) ==
    CASE form = "plain" -> PrintOpen \o <<"2">> \o o1 \o <<"3">> \o o2 \o <<"2",")">>
      [] form = "left" ->
            PrintOpen \o <<"(","2">> \o o1 \o <<"3",")">> \o o2 \o <<"2",")">>
      [] form = "right" ->
            PrintOpen \o <<"2">> \o o1 \o <<"(","3">> \o o2 \o <<"2",")",")">>

\* print(2 + 3 * 4)
SrcPrec == <<"p","r","i","n","t","(","2"," ","+"," ","3"," ","*"," ","4",")">>
\* print(2 ** 3 ** 2)
SrcPow == <<"p","r","i","n","t","(","2"," ","*","*"," ","3"," ","*","*"," ","2",")">>
\* print((2 + 3) * 4)
SrcParen == <<"p","r","i","n","t","(","(","2"," ","+"," ","3",")"," ","*"," ","4",")">>

ExprSources ==
    ({ExprSrc(form, o1, o2) : form \in Forms, o1 \in BinOps, o2 \in BinOps}
        \ {ExprSrc("right", <<"*","*">>, <<"/">>)})
    \cup {SrcPrec, SrcPow, SrcParen}

(***************************************************************************)
(* run(source, interpreter)                                                *)
(***************************************************************************)
\* lines 411-412: tokens = Lexer(source).tokenize(); ast = Parser(tokens).parse()
FrontEnd(s) ==
    LET st == tokenize(s)
    IN  [st |-> st, tree |-> IF st.stat = "done" THEN parse(st.tokens) ELSE NoAst]

\* tokenize and parse are functions of the source alone: tabulated once
FrontEndTable ==
    {<<s, FrontEnd(s)>> : s \in Sources \cup FailSources \cup LoopSources \cup ExprSources}

Compiled(s) == (CHOOSE m \in FrontEndTable : m[1] = s)[2]

StartEval_parsed_prefix(toks, tree, e, out) ==
    LET part == ParseLoop_keep_partial(toks, 1, <<>>)
    IN  IF part.ok THEN Continue(<<SeqFrame(part.node.statements)>>, e, out)
        ELSE Raise(<<>>, e, out, part.err)

\* line 413: interpreter.eval(ast) is reached only when parse returned a tree
StartEval(toks, tree, e, out) ==
    IF tree.ok THEN Continue(<<SeqFrame(tree.node.statements)>>, e, out)
    ELSE Raise(<<>>, e, out, tree.err)

RuntimeErrors == {"NameError", "ZeroDivisionError", "RuntimeError"}

SetEval(o) ==
    /\ env' = o.env
    /\ output' = o.output
    /\ ctl' = o.ctl
    /\ status' = o.status

\* run up to the first statement: tokenize, parse, enter the Block
Run(s, maxruns) ==
    /\ status # "running"
    /\ nrun < maxruns
    /\ nrun' = nrun + 1
    /\ \E st \in {Compiled(s).st} :
       \E tree \in {Compiled(s).tree} :
           /\ SetLex(st)
           /\ ast' = tree
           /\ IF st.stat = "done"
                  THEN SetEval(StartEval(st.tokens, tree, env, output))
                  ELSE SetEval(Raise(<<>>, env, output, "SyntaxError"))

Running == status = "running" /\ ctl # <<>>
AtStmt(kinds) == Running /\ Top(ctl).k = "seq" /\ CurStmt(ctl).kind \in kinds

EvalAssign ==
    /\ AtStmt({"Assign"})
    /\ \E o \in {ExecAssign(ctl, env, output)} : SetEval(o)
    /\ UNCHANGED <<lexvars, ast, nrun>>

EvalPrint ==
    /\ AtStmt({"Print"})
    /\ \E o \in {ExecPrint(ctl, env, output)} : SetEval(o)
    /\ UNCHANGED <<lexvars, ast, nrun>>

EvalExprStmt ==
    /\ AtStmt({"Number", "Var", "BinOp", "Unary"})
    /\ \E o \in {ExecExpr(ctl, env, output)} : SetEval(o)
    /\ UNCHANGED <<lexvars, ast, nrun>>

EvalIf ==
    /\ AtStmt({"If"})
    /\ \E o \in {ExecIf(ctl, env, output)} : SetEval(o)
    /\ UNCHANGED <<lexvars, ast, nrun>>

EvalWhile ==
    /\ AtStmt({"While"})
    /\ \E o \in {ExecWhile(ctl, env, output)} : SetEval(o)
    /\ UNCHANGED <<lexvars, ast, nrun>>

EvalWhileAgain ==
    /\ Running
    /\ Top(ctl).k = "while"
    /\ \E o \in {WhileCond(ctl, env, output)} : SetEval(o)
    /\ UNCHANGED <<lexvars, ast, nrun>>

Step == EvalAssign \/ EvalPrint \/ EvalExprStmt \/ EvalIf \/ EvalWhile \/ EvalWhileAgain

InitSession ==
    /\ source = <<>>
    /\ pos = 1
    /\ line = 1
    /\ tokens = <<>>
    /\ lexstat = "idle"
    /\ IdleRest

Next ==
    \/ \E s \in Sources : Run(s, MaxRuns)
    \/ EvalAssign
    \/ EvalPrint
    \/ EvalExprStmt
    \/ EvalIf
    \/ EvalWhile
    \/ EvalWhileAgain

Spec == InitSession /\ [][Next]_vars

NextFail ==
    \/ \E s \in FailSources : Run(s, MaxFailRuns)
    \/ EvalAssign
    \/ EvalPrint
    \/ EvalIf
    \/ EvalWhile
    \/ EvalWhileAgain

SpecFail == InitSession /\ [][NextFail]_vars

NextLoop ==
    \/ \E s \in LoopSources : Run(s, MaxLoopRuns)
    \/ EvalAssign
    \/ EvalWhile
    \/ EvalWhileAgain

SpecLoop == InitSession /\ [][NextLoop]_vars

\* evaluation is one synchronous call: once started it runs to its end
FairSpecLoop == SpecLoop /\ WF_vars(Step)

NextExpr ==
    \/ \E s \in ExprSources : Run(s, MaxExprRuns)
    \/ EvalPrint

SpecExpr == InitSession /\ [][NextExpr]_vars

(***************************************************************************)
(* Parser inputs: token lists obtained by lexing words separated by        *)
(* blanks, so every list ends with the single EOF the lexer appends.       *)
(***************************************************************************)
Words == { <<"1">>, <<"x">>, <<"=">>, <<"+">>, <<"-">>, <<"*","*">>, <<"=","=">>,
           <<"(">>, <<")">>, <<"{">>, <<"}">>, <<";">>,
           <<"p","r","i","n","t">>, <<"i","f">>, <<"e","l","s","e">>,
           <<"w","h","i","l","e">> }

FragIf == <<"i","f","(","1",")","{">>
FragWhile == <<"w","h","i","l","e","(","x",")","{">>
FragClose == <<"}">>
FragCloseElse == <<"}","e","l","s","e","{">>
FragElse == <<"e","l","s","e","{">>
FragAssign == <<"x","=","1">>
FragPrint == <<"p","r","i","n","t","(","x",")">>
FragAssignSemi == <<"y","=","x","+","2",";">>

ParseFrags == {FragIf, FragWhile, FragClose, FragCloseElse, FragElse,
               FragAssign, FragPrint, FragAssignSemi}

\* the pieces, each followed by a blank
RECURSIVE Join(_)
Join(ws) == IF ws = <<>> THEN <<>> ELSE Head(ws) \o <<" ">> \o Join(Tail(ws))

ParseSources ==
    {Join(ws) : ws \in SeqsUpTo(Words, MaxToks)}
        \cup {Join(fs) : fs \in SeqsUpTo(ParseFrags, MaxFrags)}

InitParse ==
    /\ source \in ParseSources
    /\ \E st \in {tokenize(source)} : SetLexNow(st)
    /\ IdleRest

\* ast = Parser(tokens).parse(), the exception recorded in place of the tree
ParseTokens ==
    /\ lexstat = "done"
    /\ ast = NoAst
    /\ ast' = parse(tokens)
    /\ UNCHANGED <<lexvars, evalvars>>

NextParse == ParseTokens

SpecParse == InitParse /\ [][NextParse]_vars

(***************************************************************************)
(* Properties of the lexer (SpecLex)                                       *)
(***************************************************************************)
TokenTypes(toks) == [i \in 1..Len(toks) |-> toks[i].type]

NewlineCount(s) == Cardinality({i \in 1..Len(s) : s[i] = "\n"})

\* C4: when tokenize succeeds the token list holds exactly one EOF token, in
\* last place, carrying the final line number (one more than the number of
\* newlines of the source); token lines start at 1 and never decrease.
C4_SingleFinalEOF ==
    lexstat = "done" =>
        /\ Len(tokens) >= 1
        /\ Last(tokens).type = "EOF"
        /\ \A i \in 1..(Len(tokens) - 1) : tokens[i].type # "EOF"
        /\ Last(tokens).line = line
        /\ Last(tokens).line = 1 + NewlineCount(source)
        /\ \A i \in 1..Len(tokens) : tokens[i].line >= 1
        /\ \A i \in 1..(Len(tokens) - 1) : tokens[i].line <= tokens[i + 1].line

C4_Witness ==
    /\ lexstat = "done"
    /\ Len(tokens) = 3
    /\ tokens[1].line = 1
    /\ tokens[2].line = 2
    /\ Last(tokens).line = 3

TwoCharOps ==
    { Lit(<<"=","=">>, "EQ"), Lit(<<"!","=">>, "NEQ"), Lit(<<"<","=">>, "LTE"),
      Lit(<<">","=">>, "GTE"), Lit(<<"*","*">>, "POW") }

\* C5: whenever the lexer stands where the remaining input starts with ==,
\* !=, <=, >= or **, its next step appends the single two-character token
\* and consumes both characters; a==b lexes to IDENT(a) EQ IDENT(b) EOF.
C5_TwoCharOperators ==
    /\ []((lexstat = "done" /\ source = SrcAEqB) =>
             /\ TokenTypes(tokens) = <<"IDENT", "EQ", "IDENT", "EOF">>
             /\ tokens[1].value = <<"a">>
             /\ tokens[3].value = <<"b">>)
    /\ [][\A op \in TwoCharOps :
             (lexstat = "scanning" /\ StartsWith(source, pos, op.lit)) =>
                 /\ tokens' = Append(tokens, Token(op.ttype, op.lit, line))
                 /\ pos' = pos + 2
                 /\ lexstat' = "scanning"]_vars

C5_Witness ==
    /\ lexstat = "done"
    /\ source = SrcAEqB
    /\ Len(tokens) = 4
    /\ tokens[2].type = "EQ"

(***************************************************************************)
(* Properties of the parser (SpecParse)                                    *)
(***************************************************************************)
SimpleFrags == {FragAssign, FragPrint, FragAssignSemi}

\* a sequence of pieces that is well formed up to its end and leaves a block
\* open there; open lists the blocks entered and not yet closed
RECURSIVE OpenAtEnd(_, _)
OpenAtEnd(fs, open) ==
    IF fs = <<>> THEN open # <<>>
    ELSE LET f == Head(fs)
         IN  CASE f \in SimpleFrags -> OpenAtEnd(Tail(fs), open)
               [] f = FragIf -> OpenAtEnd(Tail(fs), Append(open, "if"))
               [] f = FragWhile -> OpenAtEnd(Tail(fs), Append(open, "while"))
               [] f = FragClose ->
                     open # <<>> /\ OpenAtEnd(Tail(fs), Pop(open))
               [] f = FragCloseElse ->
                     /\ open # <<>>
                     /\ Last(open) = "if"
                     /\ OpenAtEnd(Tail(fs), Append(Pop(open), "else"))
               [] f = FragElse -> FALSE

UnclosedSources ==
    {Join(fs) : fs \in {g \in SeqsUpTo(ParseFrags, MaxFrags) : OpenAtEnd(g, <<>>)}}

\* C8: a program that ends inside the then-body or else-body of an if, or
\* inside the body of a while, fails with the parser's SyntaxError raised at
\* the EOF token, and parse yields no tree at all.
C8_UnclosedBlockFails ==
    (ast # NoAst /\ source \in UnclosedSources) =>
        /\ ~ast.ok
        /\ ast.err = "SyntaxError"
        /\ ast.pos = Len(tokens)
        /\ ast.node = None

C8_Witness ==
    /\ ast # NoAst
    /\ source = Join(<<FragIf, FragCloseElse, FragAssign>>)
    /\ ~ast.ok
    /\ ast.pos = Len(tokens)

\* C10: on every token list ending in the lexer's EOF the parser reads no
\* token outside the list (no IndexError, also not from the tokens[pos+1]
\* lookahead), its cursor stays on or before the EOF token, a successful
\* parse stops on the EOF token and every failure is the parser's SyntaxError.
C10_CursorInBounds ==
    ast # NoAst =>
        /\ ast.err # "IndexError"
        /\ ast.pos \in 1..Len(tokens)
        /\ ast.ok => ast.pos = Len(tokens)
        /\ ~ast.ok => ast.err = "SyntaxError"

C10_Witness ==
    /\ ast # NoAst
    /\ ~ast.ok
    /\ ast.err = "SyntaxError"
    /\ ast.pos = Len(tokens)
    /\ Len(tokens) = 3
    /\ tokens[1].type = "IDENT"
    /\ tokens[2].type = "ASSIGN"

(***************************************************************************)
(* Properties of a session (Spec)                                          *)
(***************************************************************************)
\* the Environment binds name n to value v
Bound(n, v) == n \in DOMAIN env /\ env[n] = v

\* the output log ends with value v
LastOut(v) == output # <<>> /\ Last(output) = v

X == <<"x">>
Y == <<"y">>
Z == <<"z">>

\* sources holding an unclosed block, a stray ")" or a character the lexer
\* does not know: no continuation built from Pieces repairs them
MalformedSources ==
    {Flatten(ps) : ps \in {q \in SeqsUpTo(Pieces, MaxStmts) :
        \E i \in 1..Len(q) : q[i] \in {PieceUnclosed, PieceParen, PieceBadChar}}}

\* C3: a run call whose source fails in tokenize or in parse reports a
\* SyntaxError and evaluates nothing: Environment and output log are what
\* they were before the call, also when the source starts with valid
\* statements, and nothing of that source is evaluated afterwards.
C3_FrontEndFailureEvaluatesNothing ==
    /\ [][(lexstat' = "error" \/ ~ast'.ok) =>
             /\ env' = env
             /\ output' = output
             /\ ctl' = <<>>
             /\ status' = "SyntaxError"]_vars
    /\ [][(nrun' = nrun + 1 /\ source' \in MalformedSources) =>
             /\ (lexstat' = "error" \/ ~ast'.ok)
             /\ env' = env
             /\ output' = output]_vars

C3_Witness ==
    /\ nrun = 2
    /\ source = PieceExample \o PieceParen
    /\ lexstat = "done"
    /\ ~ast.ok
    /\ status = "SyntaxError"
    /\ DOMAIN env = {X, Y, Z}
    /\ output = <<IntV(15)>>

IsZeroOperand(node) ==
    \/ node.kind = "Number" /\ node.value.n = 0
    \/ node.kind = "Var" /\ node.name \in DOMAIN env /\ env[node.name].n = 0

IsPlainOperand(node) ==
    \/ node.kind = "Number"
    \/ node.kind = "Var" /\ node.name \in DOMAIN env

\* the statement about to be evaluated is print(l / r) with r equal to zero
AtPrintOfDivisionByZero ==
    /\ AtStmt({"Print"})
    /\ CurStmt(ctl).expr.kind = "BinOp"
    /\ CurStmt(ctl).expr.op = <<"/">>
    /\ IsPlainOperand(CurStmt(ctl).expr.left)
    /\ IsZeroOperand(CurStmt(ctl).expr.right)

\* C7: a division whose right operand is zero raises ZeroDivisionError
\* instead of yielding a value; inside print(...) nothing is appended to the
\* output log, and print(5 / 0) ends its run with that error.
C7_DivisionByZero ==
    /\ [][AtPrintOfDivisionByZero =>
             /\ status' = "ZeroDivisionError"
             /\ output' = output
             /\ env' = env]_vars
    /\ []((source = PieceDivZero /\ status # "running") =>
             status = "ZeroDivisionError")

C7_Witness ==
    /\ status = "ZeroDivisionError"
    /\ source = PieceExample \o PieceDivZero
    /\ nrun = 1
    /\ output = <<IntV(15)>>

AssignTarget == CurStmt(ctl).name

\* C9: there is one Environment: a binding, once made, is never dropped (not
\* at the end of a block, not at the end of a run) and changes only by an
\* assignment to its name; an assignment at any nesting depth binds its name
\* in that Environment; x = 10; y = x + 5; print(y) prints 15 and leaves
\* exactly x = 10, y = 15.
C9_SingleEnvironment ==
    /\ [][\A n \in DOMAIN env :
             /\ n \in DOMAIN env'
             /\ env'[n] # env[n] => (AtStmt({"Assign"}) /\ AssignTarget = n)]_vars
    /\ [][(AtStmt({"Assign"}) /\ status' \notin RuntimeErrors) =>
             /\ DOMAIN env' = DOMAIN env \cup {AssignTarget}
             /\ CurStmt(ctl).value.kind = "Var" =>
                    env'[AssignTarget] = env[CurStmt(ctl).value.name]]_vars
    /\ []((nrun = 1 /\ source = PieceExample /\ status # "running") =>
             /\ status = "done"
             /\ output = <<IntV(15)>>
             /\ DOMAIN env = {X, Y}
             /\ Bound(X, IntV(10))
             /\ Bound(Y, IntV(15)))

C9_Witness ==
    /\ nrun = 2
    /\ source = PieceDivVar
    /\ status = "done"
    /\ Bound(Z, IntV(10))
    /\ output = <<IntV(15), Rat(TRUE, 3, 2)>>

(***************************************************************************)
(* Properties of failing evaluations (SpecFail)                            *)
(***************************************************************************)
VarI == <<"i">>

\* C2: the step that raises NameError, ZeroDivisionError or the loop bound's
\* RuntimeError changes neither the Environment nor the output log and
\* abandons the rest of the program; what the statements before it did
\* stays, and the next run call starts from exactly that Environment and
\* output log.
C2_FailureKeepsPriorEffects ==
    /\ [][(status = "running" /\ status' \in RuntimeErrors) =>
             /\ env' = env
             /\ output' = output
             /\ ctl' = <<>>]_vars
    /\ [][(status \in RuntimeErrors) => (env' = env /\ output' = output)]_vars
    /\ []((source = SrcNameError /\ status # "running") =>
             /\ status = "NameError"
             /\ Bound(X, IntV(1))
             /\ Bound(Y, IntV(2))
             /\ Z \notin DOMAIN env
             /\ LastOut(IntV(2)))
    /\ []((source = SrcZeroDiv /\ status # "running") =>
             /\ status = "ZeroDivisionError"
             /\ Bound(X, IntV(3))
             /\ LastOut(IntV(3)))
    /\ []((source = SrcTrip /\ status # "running") =>
             /\ status = "RuntimeError"
             /\ Bound(VarI, IntV(LoopLimit))
             /\ LastOut(IntV(0)))
    /\ []((source = SrcShow /\ status = "done") => (X \in DOMAIN env /\ LastOut(env[X])))

C2_Witness ==
    /\ nrun = 2
    /\ source = SrcShow
    /\ status = "done"
    /\ Bound(X, IntV(1))
    /\ Bound(Y, IntV(2))
    /\ output = <<IntV(1), IntV(2), IntV(1)>>

(***************************************************************************)
(* Properties of the iteration bound (FairSpecLoop)                        *)
(***************************************************************************)
\* C1: the loop bound trips on the 10,001st condition that evaluates true,
\* when the body has run 10,000 times; a loop whose condition is true 10,000
\* times and then false completes; while (1) { } ends with the RuntimeError;
\* every evaluation ends.
C1_IterationBound ==
    /\ [][(status = "running" /\ status' = "RuntimeError") =>
             /\ Top(ctl).k = "while"
             /\ Top(ctl).iterations = LoopLimit]_vars
    /\ [](\A f \in 1..Len(ctl) : ctl[f].iterations <= LoopLimit)
    /\ []((source = SrcWhileTrue /\ status # "running") => status = "RuntimeError")
    /\ []((source = SrcCount10000 /\ status # "running") =>
             (status = "done" /\ Bound(VarI, IntV(LoopLimit))))
    /\ []((source = SrcCount10001 /\ status # "running") =>
             (status = "RuntimeError" /\ Bound(VarI, IntV(LoopLimit))))
    /\ ((status = "running") ~> (status # "running"))

C1_Witness ==
    /\ source = SrcCount10001
    /\ status = "RuntimeError"
    /\ Bound(VarI, IntV(10000))
    /\ nrun = 1

(***************************************************************************)
(* Properties of expression parsing (SpecExpr)                             *)
(***************************************************************************)
\* binding strength of a binary operator, from the grammar of the language
Prec(op) ==
    CASE op \in {<<"=","=">>, <<"!","=">>, <<"<">>, <<">">>, <<"<","=">>, <<">","=">>} -> 1
      [] op \in {<<"+">>, <<"-">>} -> 2
      [] op \in {<<"*">>, <<"/">>, <<"%">>} -> 3
      [] op = <<"*","*">> -> 4

Two == NumberNode(IntV(2))
Three == NumberNode(IntV(3))

GroupLeft(o1, o2) == BinOpNode(BinOpNode(Two, o1, Three), o2, Two)
GroupRight(o1, o2) == BinOpNode(Two, o1, BinOpNode(Three, o2, Two))

ExpectedTree(form, o1, o2) ==
    CASE form = "left" -> GroupLeft(o1, o2)
      [] form = "right" -> GroupRight(o1, o2)
      [] form = "plain" ->
            IF Prec(o1) > Prec(o2) THEN GroupLeft(o1, o2)
            ELSE IF Prec(o1) < Prec(o2) THEN GroupRight(o1, o2)
            ELSE IF o1 = <<"*","*">> THEN GroupRight(o1, o2)
            ELSE GroupLeft(o1, o2)

\* C6: in 2 o1 3 o2 2 the tighter operator takes the 3, equal strength
\* groups to the left except ** which groups to the right, and parentheses
\* decide otherwise; 2 + 3 * 4 is 14, 2 ** 3 ** 2 is 512, (2 + 3) * 4 is 20.
C6_Precedence ==
    /\ \A form \in Forms, o1 \in BinOps, o2 \in BinOps :
           (nrun >= 1 /\ source = ExprSrc(form, o1, o2)) =>
               /\ ast.ok
               /\ ast.node = BlockNode(<<PrintNode(ExpectedTree(form, o1, o2))>>)
    /\ (source = SrcPrec /\ status # "running") =>
           (status = "done" /\ LastOut(IntV(14)))
    /\ (source = SrcPow /\ status # "running") =>
           (status = "done" /\ LastOut(IntV(512)))
    /\ (source = SrcParen /\ status # "running") =>
           (status = "done" /\ LastOut(IntV(20)))

C6_Witness ==
    /\ source = SrcPow
    /\ status = "done"
    /\ output = <<IntV(512)>>

====
